---- MODULE Spec2Model ----
(***************************************************************************)
(* Sales Snapshot (src/src/App.tsx): the cell normalizer, the column       *)
(* detector, the daily aggregator, the summary builder, the signal         *)
(* generator and the App component's file handler.                         *)
(*                                                                         *)
(* Strings are sequences of one-character strings, so that the regular     *)
(* expressions, toLowerCase, includes, parseFloat and the Date round trip  *)
(* are computed on the characters.  Numbers are exact rationals            *)
(* [n |-> numerator, d |-> denominator > 0] in lowest terms.  A Date is    *)
(* its time value counted in whole days since 1970-01-01 (only date-only   *)
(* ISO strings are parsed, and those are UTC midnights).                   *)
(***************************************************************************)
EXTENDS Integers, Sequences, FiniteSets, TLC

VARIABLES
    keys,       \* aggregate: Object.keys(rows[0]), the header order
    rows,       \* aggregate: the records handed to aggregate
    aggPc,      \* aggregate: "call" before the call, "done" after it
    aggOut,     \* aggregate: what the call produced (locals, result or throw)
    sigIn,      \* buildSignals: its argument
    sigPc,      \* buildSignals: "call" | "done"
    sigOut,     \* buildSignals: the returned messages
    daily,      \* App: useState daily
    summary,    \* App: useState summary (<<>> is null)
    error,      \* App: useState error (<<>> is null)
    fileName,   \* App: useState fileName
    pending,    \* App: handleFiles calls suspended at await file.text()
    started,    \* App: number of handleFiles calls made so far
    shown       \* App: the file whose result the last completed call displayed

vars == <<keys, rows, aggPc, aggOut, sigIn, sigPc, sigOut,
          daily, summary, error, fileName, pending, started, shown>>

aggVars == <<keys, rows, aggPc, aggOut>>
sigVars == <<sigIn, sigPc, sigOut>>
appVars == <<daily, summary, error, fileName, pending, started, shown>>

(***************************************************************************)
(* Bounds of the model.                                                    *)
(***************************************************************************)
MaxRows == 2
MaxCalls == 3

(***************************************************************************)
(* Strings.                                                                *)
(***************************************************************************)
Digits == <<"0", "1", "2", "3", "4", "5", "6", "7", "8", "9">>
LowerLetters == <<"a", "b", "c", "d", "e", "f", "g", "h", "i", "j", "k", "l", "m",
                  "n", "o", "p", "q", "r", "s", "t", "u", "v", "w", "x", "y", "z">>
UpperLetters == <<"A", "B", "C", "D", "E", "F", "G", "H", "I", "J", "K", "L", "M",
                  "N", "O", "P", "Q", "R", "S", "T", "U", "V", "W", "X", "Y", "Z">>

IsDigit(c) == \E i \in 1..Len(Digits) : Digits[i] = c
DigitValue(c) == (CHOOSE i \in 1..Len(Digits) : Digits[i] = c) - 1
IsSpace(c) == c \in {" ", "\t", "\n"}

\* String.prototype.toLowerCase, character by character
LowerChar(c) ==
    IF \E i \in 1..Len(UpperLetters) : UpperLetters[i] = c
    THEN LowerLetters[CHOOSE i \in 1..Len(UpperLetters) : UpperLetters[i] = c]
    ELSE c
toLowerCase(s) == [i \in 1..Len(s) |-> LowerChar(s[i])]

\* String.prototype.includes
includes(s, sub) ==
    \E i \in 0..(Len(s) - Len(sub)) : \A j \in 1..Len(sub) : s[i + j] = sub[j]

\* String.prototype.replace(/[set]/g, ''): drop every character of the set
Strip(s, set) == SelectSeq(s, LAMBDA c : c \notin set)

\* String.prototype.replace(/\//g, '-')
SlashToDash(s) == [i \in 1..Len(s) |-> IF s[i] = "/" THEN "-" ELSE s[i]]

\* String.prototype.trim
RECURSIVE TrimLeft(_)
TrimLeft(s) == IF s # <<>> /\ IsSpace(s[1]) THEN TrimLeft(Tail(s)) ELSE s
RECURSIVE TrimRight(_)
TrimRight(s) ==
    IF s # <<>> /\ IsSpace(s[Len(s)]) THEN TrimRight(SubSeq(s, 1, Len(s) - 1)) ELSE s
trim(s) == TrimRight(TrimLeft(s))

\* value.split(/[\sT]/)[0]: the text before the first whitespace or 'T'
FirstPart(s) ==
    LET stops == {i \in 1..Len(s) : IsSpace(s[i]) \/ s[i] = "T"}
    IN IF stops = {} THEN s
       ELSE SubSeq(s, 1, (CHOOSE i \in stops : \A j \in stops : i <= j) - 1)

(***************************************************************************)
(* Numbers: exact rationals in lowest terms.                               *)
(***************************************************************************)
Abs(x) == IF x < 0 THEN -x ELSE x
RECURSIVE GCD(_, _)
GCD(a, b) == IF b = 0 THEN a ELSE GCD(b, a % b)
Rat(n, d) ==
    LET s == IF d < 0 THEN -1 ELSE 1
        g == GCD(Abs(n), Abs(d))
    IN [n |-> (s * n) \div g, d |-> (s * d) \div g]
Zero == [n |-> 0, d |-> 1]
Int2Rat(k) == [n |-> k, d |-> 1]
Add(a, b) == Rat(a.n * b.d + b.n * a.d, a.d * b.d)
\* a / b for b # 0
Quot(a, b) == Rat(a.n * b.d, a.d * b.n)
Lt(a, b) == a.n * b.d < b.n * a.d
Le(a, b) == a.n * b.d <= b.n * a.d
Times3Halves(a) == Rat(3 * a.n, 2 * a.d)
RECURSIVE Pow10(_)
Pow10(k) == IF k = 0 THEN 1 ELSE 10 * Pow10(k - 1)

\* the value of a run of decimal digits
RECURSIVE DigitsValue(_)
DigitsValue(s) ==
    IF s = <<>> THEN 0 ELSE 10 * DigitsValue(SubSeq(s, 1, Len(s) - 1)) + DigitValue(s[Len(s)])

\* the longest prefix of s made of digits
RECURSIVE DigitPrefix(_)
DigitPrefix(s) ==
    IF s # <<>> /\ IsDigit(s[1]) THEN <<s[1]>> \o DigitPrefix(Tail(s)) ELSE <<>>

\* Number.parseFloat: optional sign, digits, optional fraction; stops at the first
\* character that does not continue the literal.  <<>> is NaN, <<r>> the number r.
\* (Exponents and "Infinity" are not read: no cell of the model holds a letter
\* after its digits.)
parseFloat(str) ==
    LET s == TrimLeft(str)
        neg == s # <<>> /\ s[1] = "-"
        body == IF s # <<>> /\ s[1] \in {"-", "+"} THEN Tail(s) ELSE s
        ip == DigitPrefix(body)
        rest == SubSeq(body, Len(ip) + 1, Len(body))
        fp == IF rest # <<>> /\ rest[1] = "." THEN DigitPrefix(Tail(rest)) ELSE <<>>
        mag == Rat(DigitsValue(ip) * Pow10(Len(fp)) + DigitsValue(fp), Pow10(Len(fp)))
    IN IF ip = <<>> /\ fp = <<>> THEN <<>>
       ELSE <<IF neg THEN Rat(-mag.n, mag.d) ELSE mag>>

(***************************************************************************)
(* Dates.                                                                  *)
(***************************************************************************)
IsLeap(y) == (y % 4 = 0 /\ y % 100 # 0) \/ y % 400 = 0
DaysInMonth(y, m) ==
    IF m = 2 THEN (IF IsLeap(y) THEN 29 ELSE 28)
    ELSE IF m \in {4, 6, 9, 11} THEN 30 ELSE 31

\* days since 1970-01-01 of the civil date y-m-d (proleptic Gregorian)
DaysFromCivil(y, m, d) ==
    LET yy == IF m <= 2 THEN y - 1 ELSE y
        era == yy \div 400
        yoe == yy - era * 400
        mp == IF m > 2 THEN m - 3 ELSE m + 9
        doy == (153 * mp + 2) \div 5 + d - 1
        doe == yoe * 365 + yoe \div 4 - yoe \div 100 + doy
    IN era * 146097 + doe - 719468

\* <<y, m, d>> of the day number z
CivilFromDays(z) ==
    LET zz == z + 719468
        era == zz \div 146097
        doe == zz - era * 146097
        yoe == (doe - doe \div 1460 + doe \div 36524 - doe \div 146096) \div 365
        doy == doe - (365 * yoe + yoe \div 4 - yoe \div 100)
        mp == (5 * doy + 2) \div 153
        d == doy - (153 * mp + 2) \div 5 + 1
        m == IF mp < 10 THEN mp + 3 ELSE mp - 9
    IN <<IF m <= 2 THEN yoe + era * 400 + 1 ELSE yoe + era * 400, m, d>>

\* new Date(string).getTime(), in days: <<>> is NaN (Invalid Date).  Only the
\* date-only ISO form YYYY-MM-DD is read; every other form is left to the
\* engine by ECMAScript and no cell of the model uses one.
DateParse(s) ==
    IF /\ Len(s) = 10
       /\ s[5] = "-" /\ s[8] = "-"
       /\ \A i \in {1, 2, 3, 4, 6, 7, 9, 10} : IsDigit(s[i])
    THEN LET y == DigitsValue(SubSeq(s, 1, 4))
             m == DigitsValue(SubSeq(s, 6, 7))
             d == DigitsValue(SubSeq(s, 9, 10))
         IN IF m \in 1..12 /\ d \in 1..DaysInMonth(y, m)
            THEN <<DaysFromCivil(y, m, d)>>
            ELSE <<>>
    ELSE <<>>

Pad(n, width) == [i \in 1..width |-> Digits[((n \div Pow10(width - i)) % 10) + 1]]

\* date.toISOString().slice(0, 10), for years 0000..9999
ISODate(t) ==
    LET c == CivilFromDays(t)
    IN Pad(c[1], 4) \o <<"-">> \o Pad(c[2], 2) \o <<"-">> \o Pad(c[3], 2)

(***************************************************************************)
(* Cell Normalizer.                                                        *)
(***************************************************************************)
NoValue == <<>>        \* null, undefined and the other falsy "absent" results

\* const numberish = /[-\d.,$()%]/;  numberish.test(cell)
NumberishChars == {"-", ".", ",", "$", "(", ")", "%"}
numberish(cell) == \E i \in 1..Len(cell) : IsDigit(cell[i]) \/ cell[i] \in NumberishChars

\* Number.isFinite(parsed) ? parsed : 0
finiteOrZero(parsed) == IF parsed = <<>> THEN Zero ELSE parsed[1]

\* the four replace calls of parseNumber ("nbsp" stands for U+00A0)
normalize(value) ==
    Strip(Strip(Strip(Strip(value, {"$", ",", " ", "\t", "\n"}), {"(", ")"}), {"%"}), {"nbsp"})

parseNumberTrimmed(value) ==
    IF value = <<>> THEN Zero ELSE finiteOrZero(parseFloat(normalize(value)))

parseNumber(raw) == parseNumberTrimmed(trim(raw))

\* the second attempt of tryParseDate, on value.split(/[\sT]/)[0]
isoOrNull(dateAlt) == IF dateAlt # <<>> THEN ISODate(dateAlt[1]) ELSE NoValue

\* the first attempt, on the value with its slashes replaced
isoOrRetry(value, date) ==
    IF date # <<>> THEN ISODate(date[1]) ELSE isoOrNull(DateParse(FirstPart(value)))

tryParseDateTrimmed(value) ==
    IF value = <<>> THEN NoValue ELSE isoOrRetry(value, DateParse(SlashToDash(value)))

\* the ISO date string, or NoValue for null
tryParseDate(raw) == IF raw = <<>> THEN NoValue ELSE tryParseDateTrimmed(trim(raw))

(***************************************************************************)
(* The column names and the cells of the model, and the normalizer's and   *)
(* the hint test's values on them, computed once.                          *)
(***************************************************************************)
HDate == <<"D", "a", "t", "e">>
HAmount == <<"A", "m", "o", "u", "n", "t">>
HGross == <<"G", "r", "o", "s", "s", " ", "S", "a", "l", "e", "s">>
HNet == <<"N", "e", "t", " ", "S", "a", "l", "e", "s">>
Headers == {HDate, HAmount, HGross, HNet}

CEmpty == <<>>                                                  \* ""
CDash == <<"-">>                                                \* "-"
CJan31 == <<"2", "0", "2", "4", "-", "0", "1", "-", "3", "1">>  \* "2024-01-31"
CFeb02 == <<"2", "0", "2", "4", "/", "0", "2", "/", "0", "2">>  \* "2024/02/02"
CMoney == <<"$", "5", ".", "5", "0">>                           \* "$5.50"

Cells == {CEmpty, CDash, CJan31, CFeb02, CMoney}
CoreCells == {CEmpty, CJan31, CMoney}

CellNumberish == [c \in Cells |-> numberish(c)]
CellDates == [c \in Cells |-> tryParseDate(c)]
CellNumbers == [c \in Cells |-> parseNumber(c)]
cellNumberish(c) == CellNumberish[c]
cellDate(c) == CellDates[c]
cellNumber(c) == CellNumbers[c]

(***************************************************************************)
(* Column Detector.                                                        *)
(***************************************************************************)
MetricOrder == <<"gross", "net", "discounts", "tips", "transactions">>
MetricKeys == {MetricOrder[i] : i \in 1..Len(MetricOrder)}

metricHints ==
    [gross |-> << <<"g", "r", "o", "s", "s">>,
                  <<"t", "o", "t", "a", "l", " ", "s", "a", "l", "e", "s">>,
                  <<"t", "o", "t", "a", "l", " ", "g", "r", "o", "s", "s">>,
                  <<"r", "e", "v", "e", "n", "u", "e">> >>,
     net |-> << <<"n", "e", "t">>,
                <<"t", "o", "t", "a", "l", " ", "n", "e", "t">>,
                <<"n", "e", "t", " ", "s", "a", "l", "e", "s">> >>,
     discounts |-> << <<"d", "i", "s", "c", "o", "u", "n", "t">>,
                      <<"c", "o", "m", "p">>,
                      <<"p", "r", "o", "m", "o">> >>,
     tips |-> << <<"t", "i", "p">>,
                 <<"g", "r", "a", "t", "u", "i", "t", "y">> >>,
     transactions |-> << <<"t", "r", "a", "n", "s", "a", "c", "t", "i", "o", "n", "s">>,
                         <<"o", "r", "d", "e", "r", "s">>,
                         <<"r", "e", "c", "e", "i", "p", "t", "s">>,
                         <<"c", "o", "u", "n", "t">> >>]

\* rows.reduce((acc, row) => (test(row[header]) ? acc + 1 : acc), 0)
dateHits(rs, header) == Cardinality({i \in 1..Len(rs) : cellDate(rs[i][header]) # NoValue})
numericDensity(rs, header) == Cardinality({i \in 1..Len(rs) : cellNumberish(rs[i][header])})

\* hints.reduce((acc, hint) => (headerLc.includes(hint) ? acc + 1 : acc), 0)
countHints(hints, headerLc) ==
    Cardinality({i \in 1..Len(hints) : includes(headerLc, hints[i])})
HintScores ==
    [h \in Headers |-> [m \in MetricKeys |-> countHints(metricHints[m], toLowerCase(h))]]
hintScore(metric, header) == HintScores[header][metric]

\* dateStep without "if (hits === 0) continue"
dateStepNoSkip(header, hits, best) ==
    IF best = <<>> \/ hits > best[1].hits
    THEN <<[header |-> header, hits |-> hits]>>
    ELSE best

\* if (hits === 0) continue; if (!best || hits > best.hits) best = { header, hits };
dateStep(header, hits, best) ==
    IF hits = 0 THEN best
    ELSE IF best = <<>> \/ hits > best[1].hits
         THEN <<[header |-> header, hits |-> hits]>>
         ELSE best

\* the loop of detectDateColumn over headers[i..]; best is <<>> or <<[header, hits]>>
RECURSIVE dateLoop(_, _, _, _)
dateLoop(rs, headers, i, best) ==
    IF i > Len(headers) THEN best
    ELSE dateLoop(rs, headers, i + 1, dateStep(headers[i], dateHits(rs, headers[i]), best))

\* best?.header ?? null
headerOf(best) == IF best = <<>> THEN NoValue ELSE best[1].header

detectDateColumn(rs, headers) == headerOf(dateLoop(rs, headers, 1, <<>>))

\* if (!best || weightedScore > best.score) best = { header, score: weightedScore };
keepBetter(header, weightedScore, best) ==
    IF best = <<>> \/ weightedScore > best[1].score
    THEN <<[header |-> header, score |-> weightedScore]>>
    ELSE best

\* metricStep without "if (score === 0 && best) continue"
metricStepNoSkip(header, score, density, best) ==
    IF density = 0 THEN best ELSE keepBetter(header, score * 2 + density, best)

\* one pass of the inner loop of detectMetricColumns, with score the number of
\* hints in the header and density its count of numeric-looking cells
metricStep(header, score, density, best) ==
    IF density = 0 THEN best                      \* !rows.some(numberish) -> continue
    ELSE IF score = 0 /\ best # <<>> THEN best    \* if (score === 0 && best) continue
    ELSE keepBetter(header, score * 2 + density, best)

\* for (const header of available): available in insertion order
RECURSIVE metricLoop(_, _, _, _, _)
metricLoop(rs, metric, available, i, best) ==
    IF i > Len(available) THEN best
    ELSE metricLoop(rs, metric, available, i + 1,
                    metricStep(available[i], hintScore(metric, available[i]),
                               numericDensity(rs, available[i]), best))

NoSelections == [m \in MetricKeys |-> NoValue]

\* available.delete(best.header)
deleteBest(available, best) ==
    IF best = <<>> THEN available ELSE SelectSeq(available, LAMBDA h : h # best[1].header)

\* if (best) selections[metric] = best.header
selectBest(selections, metric, best) ==
    IF best = <<>> THEN selections ELSE [selections EXCEPT ![metric] = best[1].header]

\* the loop over Object.entries(metricHints), from the k-th metric on
RECURSIVE selectLoop(_, _, _, _)
RECURSIVE selectNext(_, _, _, _, _)
selectNext(rs, k, available, selections, best) ==
    selectLoop(rs, k + 1, deleteBest(available, best),
               selectBest(selections, MetricOrder[k], best))
selectLoop(rs, k, available, selections) ==
    IF k > Len(MetricOrder) THEN [available |-> available, selections |-> selections]
    ELSE selectNext(rs, k, available, selections,
                    metricLoop(rs, MetricOrder[k], available, 1, <<>>))

\* "If transactions is still missing, grab any remaining numeric column."
firstDense(available, dense) ==
    IF dense = {} THEN NoValue
    ELSE available[CHOOSE i \in dense : \A j \in dense : i <= j]
transactionsFallback(rs, available) ==
    firstDense(available,
               {i \in 1..Len(available) : 3 * numericDensity(rs, available[i]) > Len(rs)})

withFallback(rs, after) ==
    IF after.selections["transactions"] = NoValue
    THEN [after.selections EXCEPT
             !["transactions"] = transactionsFallback(rs, after.available)]
    ELSE after.selections

detectMetricColumns(rs, headers) == withFallback(rs, selectLoop(rs, 1, headers, NoSelections))

(***************************************************************************)
(* Signal Generator.                                                       *)
(***************************************************************************)
Msg(rule, text, args) == [rule |-> rule, text |-> text, args |-> args]

normalizationNote(operatingDays, calendarDays) ==
    IF operatingDays < calendarDays
    THEN Msg("normalization", "Operating-day normalization matters",
             <<operatingDays, calendarDays>>)
    ELSE Msg("normalization", "Performance is normalized: every calendar day shows activity.", <<>>)

\* driverNote guarded by tickets && txnPace only
driverNoteIgnoringGross(grossPerDay, tickets, txnPace) ==
    IF tickets.n # 0 /\ txnPace.n # 0
    THEN IF Lt(txnPace, Times3Halves(tickets))
         THEN <<Msg("driver", "Revenue is driven more by ticket size than transaction volume", <<>>)>>
         ELSE IF Lt(tickets, Times3Halves(txnPace))
              THEN <<Msg("driver", "Revenue is volume-led", <<>>)>>
              ELSE <<Msg("driver", "Ticket size and volume are balanced drivers of revenue.", <<>>)>>
    ELSE <<>>

\* driverNote with the factor on the other side: tickets > txnPace * 1.5, then
\* txnPace > tickets * 1.5
driverNoteFactorSwapped(grossPerDay, tickets, txnPace) ==
    IF grossPerDay.n # 0 /\ tickets.n # 0 /\ txnPace.n # 0
    THEN IF Lt(Times3Halves(txnPace), tickets)
         THEN <<Msg("driver", "Revenue is driven more by ticket size than transaction volume", <<>>)>>
         ELSE IF Lt(Times3Halves(tickets), txnPace)
              THEN <<Msg("driver", "Revenue is volume-led", <<>>)>>
              ELSE <<Msg("driver", "Ticket size and volume are balanced drivers of revenue.", <<>>)>>
    ELSE <<>>

\* the driver note: a sequence of zero or one message
driverNote(grossPerDay, tickets, txnPace) ==
    IF grossPerDay.n # 0 /\ tickets.n # 0 /\ txnPace.n # 0
    THEN IF Lt(txnPace, Times3Halves(tickets))
         THEN <<Msg("driver", "Revenue is driven more by ticket size than transaction volume", <<>>)>>
         ELSE IF Lt(tickets, Times3Halves(txnPace))
              THEN <<Msg("driver", "Revenue is volume-led", <<>>)>>
              ELSE <<Msg("driver", "Ticket size and volume are balanced drivers of revenue.", <<>>)>>
    ELSE <<>>

discountNote(discountRate) ==
    IF Le(Rat(15, 100), discountRate)
    THEN Msg("discount", "Discount pressure is material", <<>>)
    ELSE IF Lt(Rat(5, 100), discountRate)
         THEN Msg("discount", "Moderate discounting detected", <<>>)
         ELSE Msg("discount", "Discount impact is light", <<>>)

tipsNote(tipsPerTransaction) ==
    IF Lt(tipsPerTransaction, Int2Rat(1))
    THEN Msg("tips", "Tips per transaction are soft", <<>>)
    ELSE IF Lt(Rat(25, 10), tipsPerTransaction)
         THEN Msg("tips", "Tips per transaction are strong", <<>>)
         ELSE Msg("tips", "Tips per transaction are steady", <<>>)

\* arg: [operatingDays, calendarDays, perOperatingDay, ratios]
buildSignals(arg) ==
    <<normalizationNote(arg.operatingDays, arg.calendarDays)>>
    \o driverNote(arg.perOperatingDay["gross"], arg.ratios.netPerTransaction,
                  arg.perOperatingDay["transactions"])
    \o <<discountNote(arg.ratios.discountRate)>>
    \o <<tipsNote(arg.ratios.tipsPerTransaction)>>

(***************************************************************************)
(* Daily Aggregator and Summary Builder.                                   *)
(***************************************************************************)
NewEntry(dateISO) ==
    [dateISO |-> dateISO, gross |-> Zero, net |-> Zero, discounts |-> Zero,
     tips |-> Zero, transactions |-> Zero]

\* addRow with = in place of +=
addRowOverwriting(entry, row, metricColumns) ==
    [f \in DOMAIN entry |->
        IF f \in MetricKeys /\ metricColumns[f] # NoValue
        THEN cellNumber(row[metricColumns[f]])
        ELSE entry[f]]

\* entry[metric] += parseNumber(row[column]) for every metric with a column
addRow(entry, row, metricColumns) ==
    [f \in DOMAIN entry |->
        IF f \in MetricKeys /\ metricColumns[f] # NoValue
        THEN Add(entry[f], cellNumber(row[metricColumns[f]]))
        ELSE entry[f]]

\* bucket.get(dateISO) ?? fresh entry; bucket.set(dateISO, entry).  The Map is
\* the sequence of its entries in insertion order.
bucketSet(bucket, at, dateISO, row, metricColumns) ==
    IF at = {}
    THEN Append(bucket, addRow(NewEntry(dateISO), row, metricColumns))
    ELSE [bucket EXCEPT ![CHOOSE i \in at : TRUE] = addRow(@, row, metricColumns)]
bucketPut(bucket, dateISO, row, metricColumns) ==
    bucketSet(bucket, {i \in 1..Len(bucket) : bucket[i].dateISO = dateISO},
              dateISO, row, metricColumns)

\* const dateISO = tryParseDate(row[dateColumn]); if (!dateISO) continue; ...
bucketRow(bucket, dateISO, row, metricColumns) ==
    IF dateISO = NoValue THEN bucket ELSE bucketPut(bucket, dateISO, row, metricColumns)

\* for (const row of rows) { ... }, from row i on
RECURSIVE bucketLoop(_, _, _, _, _)
bucketLoop(rs, i, dateColumn, metricColumns, bucket) ==
    IF i > Len(rs) THEN bucket
    ELSE bucketLoop(rs, i + 1, dateColumn, metricColumns,
                    bucketRow(bucket, cellDate(rs[i][dateColumn]), rs[i], metricColumns))

\* a.localeCompare(b) < 0 on strings of digits and '-' (the hyphen collates
\* before every digit)
CharRank(c) == IF c = "-" THEN 0 ELSE DigitValue(c) + 1
RECURSIVE StrLess(_, _)
StrLess(a, b) ==
    IF b = <<>> THEN FALSE
    ELSE IF a = <<>> THEN TRUE
    ELSE IF a[1] = b[1] THEN StrLess(Tail(a), Tail(b))
    ELSE CharRank(a[1]) < CharRank(b[1])

\* Array.prototype.sort((a, b) => a.dateISO.localeCompare(b.dateISO)): stable
RECURSIVE insertSorted(_, _)
insertSorted(sorted, e) ==
    IF sorted = <<>> THEN <<e>>
    ELSE IF StrLess(e.dateISO, sorted[1].dateISO) THEN <<e>> \o sorted
    ELSE <<sorted[1]>> \o insertSorted(Tail(sorted), e)
\* sortDaily without the sort: the Map's insertion order
sortDailyOmitted(entries) == entries
RECURSIVE sortDaily(_)
sortDaily(entries) ==
    IF entries = <<>> THEN <<>>
    ELSE insertSorted(sortDaily(SubSeq(entries, 1, Len(entries) - 1)), entries[Len(entries)])

\* daily.reduce((acc, cur) => acc[m] += cur[m], zeros)
RECURSIVE sumDaily(_, _)
sumDaily(entries, metric) ==
    IF entries = <<>> THEN Zero
    ELSE Add(sumDaily(SubSeq(entries, 1, Len(entries) - 1), metric),
             entries[Len(entries)][metric])

\* Math.round((end - start) / day) + 1 for the first and last daily dates
spanDays(start, end) == (end[1] - start[1]) + 1
calendarDaysOf(entries) ==
    spanDays(DateParse(entries[1].dateISO), DateParse(entries[Len(entries)].dateISO))

\* totals.x ? totals.y / totals.x : 0
ratioOrZero(num, den) == IF den.n # 0 THEN Quot(num, den) ELSE Zero

ratiosOf(totals) ==
    [discountRate |-> ratioOrZero(totals["discounts"], totals["gross"]),
     netPerTransaction |-> ratioOrZero(totals["net"], totals["transactions"]),
     tipsPerTransaction |-> ratioOrZero(totals["tips"], totals["transactions"])]

perDay(totals, days) == [m \in MetricKeys |-> Quot(totals[m], Int2Rat(days))]

summaryOf(operatingDays, calendarDays, totals, perOperatingDay, perCalendarDay, ratios) ==
    [operatingDays |-> operatingDays,
     calendarDays |-> calendarDays,
     totals |-> totals,
     perOperatingDay |-> perOperatingDay,
     perCalendarDay |-> perCalendarDay,
     ratios |-> ratios,
     signals |-> buildSignals([operatingDays |-> operatingDays,
                               calendarDays |-> calendarDays,
                               perOperatingDay |-> perOperatingDay,
                               ratios |-> ratios])]

summaryFrom(operatingDays, calendarDays, totals) ==
    summaryOf(operatingDays, calendarDays, totals, perDay(totals, operatingDays),
              perDay(totals, calendarDays), ratiosOf(totals))

\* lines 183-230 of aggregate: the summary of the sorted daily aggregates
buildSummary(entries) ==
    summaryFrom(Len(entries), calendarDaysOf(entries),
                [m \in MetricKeys |-> sumDaily(entries, m)])

\* ['gross', 'net'].filter((m) => !metricColumns[m])
missingMetrics(metricColumns) ==
    SelectSeq(<<"gross", "net">>, LAMBDA m : metricColumns[m] = NoValue)

Thrown(text, names, dateColumn, metricColumns) ==
    [outcome |-> "throw", message |-> <<text>> \o names,
     dateColumn |-> dateColumn, metricColumns |-> metricColumns,
     daily |-> <<>>, summary |-> <<>>]

\* lines 178-231: daily.length === 0 throws, else the summary is built
aggregateSorted(dateColumn, metricColumns, entries) ==
    IF Len(entries) = 0
    THEN Thrown("No usable dated rows found after parsing.", <<>>, dateColumn, metricColumns)
    ELSE [outcome |-> "return", message |-> <<>>,
          dateColumn |-> dateColumn,
          metricColumns |-> metricColumns,
          daily |-> entries,
          summary |-> <<buildSummary(entries)>>]

\* lines 149-178: missing gross or net throws, else the rows are bucketed and sorted
aggregateSelected(rs, dateColumn, metricColumns, missing) ==
    IF Len(missing) # 0
    THEN Thrown("Missing expected numeric columns: ", missing, dateColumn, metricColumns)
    ELSE aggregateSorted(dateColumn, metricColumns,
                         sortDaily(bucketLoop(rs, 1, dateColumn, metricColumns, <<>>)))

aggregateColumns(rs, dateColumn, metricColumns) ==
    aggregateSelected(rs, dateColumn, metricColumns, missingMetrics(metricColumns))

\* lines 144-148: no date column throws, else the metric columns are detected
aggregateDated(rs, headers, dateColumn) ==
    IF dateColumn = NoValue
    THEN Thrown("Could not find a date column.", <<>>, NoValue, NoSelections)
    ELSE aggregateColumns(rs, dateColumn, detectMetricColumns(rs, headers))

\* aggregate(rows) with headers = Object.keys(rows[0]).  The record keeps the two
\* locals dateColumn and metricColumns (NoValue while not computed) beside the
\* returned {daily, summary} or the thrown Error's message.
aggregate(rs, headers) ==
    IF Len(rs) = 0
    THEN Thrown("No rows detected in CSV.", <<>>, NoValue, NoSelections)
    ELSE aggregateDated(rs, headers, detectDateColumn(rs, headers))

(***************************************************************************)
(* Inputs of the model: column names, cells, header layouts, files.        *)
(***************************************************************************)
NarrowLayouts == {<<HDate, HAmount>>, <<HNet, HDate>>, <<HGross, HNet>>}
WideLayouts == {<<HDate, HNet, HGross>>, <<HAmount, HGross, HDate>>}
Layouts == NarrowLayouts \cup WideLayouts

\* the cells a layout's records draw from: the wide layouts use the core cells
CellsFor(layout) == IF layout \in NarrowLayouts THEN Cells ELSE CoreCells
HeaderSet(layout) == {layout[i] : i \in 1..Len(layout)}
RecordSets(layout) ==
    UNION {[1..n -> [HeaderSet(layout) -> CellsFor(layout)]] : n \in 0..MaxRows}

AggIdle ==
    [outcome |-> "none", message |-> <<>>, dateColumn |-> NoValue,
     metricColumns |-> NoSelections, daily |-> <<>>, summary |-> <<>>]

SigRates == {Rat(-3, 2), Rat(-1, 1), Zero, Rat(2, 3), Rat(1, 1), Rat(3, 2), Rat(2, 1)}
SigGross == {Rat(-1, 1), Zero, Rat(7, 2)}
SigDiscounts == {Rat(-1, 10), Zero, Rat(1, 20), Rat(1, 10), Rat(3, 20), Rat(1, 5)}
SigTips == {Zero, Rat(1, 1), Rat(2, 1), Rat(5, 2), Rat(3, 1)}
SigDays == {<<1, 1>>, <<1, 3>>, <<2, 2>>, <<2, 1>>}
SigInputs ==
    {[operatingDays |-> days[1],
      calendarDays |-> days[2],
      perOperatingDay |->
          [m \in MetricKeys |->
              IF m = "gross" THEN g ELSE IF m = "transactions" THEN p ELSE Zero],
      ratios |-> [discountRate |-> dr, netPerTransaction |-> t, tipsPerTransaction |-> tp]] :
        days \in SigDays, g \in SigGross, p \in SigRates, t \in SigRates,
        dr \in SigDiscounts, tp \in SigTips}
SigIdle ==
    [operatingDays |-> 1, calendarDays |-> 1,
     perOperatingDay |-> [m \in MetricKeys |-> Zero],
     ratios |-> [discountRate |-> Zero, netPerTransaction |-> Zero,
                 tipsPerTransaction |-> Zero]]

\* a File with what the tokenizer (Papa.parse, header: true) makes of its text
Row(layout, cells) == [h \in HeaderSet(layout) |-> cells[CHOOSE i \in 1..Len(layout) : layout[i] = h]]
Files ==
    {[name |-> "jan.csv", errors |-> <<>>, keys |-> <<HDate, HGross, HNet>>,
      data |-> <<Row(<<HDate, HGross, HNet>>, <<CJan31, CMoney, CMoney>>)>>],
     [name |-> "feb.csv", errors |-> <<>>, keys |-> <<HDate, HGross, HNet>>,
      data |-> <<Row(<<HDate, HGross, HNet>>, <<CFeb02, CMoney, CDash>>),
                 Row(<<HDate, HGross, HNet>>, <<CJan31, CMoney, CMoney>>)>>],
     [name |-> "notes.csv", errors |-> <<>>, keys |-> <<HAmount>>,
      data |-> <<Row(<<HAmount>>, <<CEmpty>>)>>],
     [name |-> "dates.csv", errors |-> <<>>, keys |-> <<HDate>>,
      data |-> <<Row(<<HDate>>, <<CJan31>>)>>],
     [name |-> "empty.csv", errors |-> <<>>, keys |-> <<>>, data |-> <<>>],
     [name |-> "broken.csv", errors |-> <<"Quoted field unterminated">>,
      keys |-> <<>>, data |-> <<>>]}
FileOf(name) == CHOOSE f \in Files : f.name = name

(***************************************************************************)
(* aggregate as a call: the records are drawn at Init, the action applies  *)
(* the function.                                                           *)
(***************************************************************************)
AggInit ==
    /\ keys \in Layouts
    /\ rows \in RecordSets(keys)
    /\ aggPc = "call"
    /\ aggOut = AggIdle

Aggregate ==
    /\ aggPc = "call"
    /\ aggOut' = aggregate(rows, keys)
    /\ aggPc' = "done"
    /\ UNCHANGED <<keys, rows>>

(***************************************************************************)
(* buildSignals as a call.                                                 *)
(***************************************************************************)
SigInit ==
    /\ sigIn \in SigInputs
    /\ sigPc = "call"
    /\ sigOut = <<>>

BuildSignals ==
    /\ sigPc = "call"
    /\ sigOut' = buildSignals(sigIn)
    /\ sigPc' = "done"
    /\ UNCHANGED sigIn

(***************************************************************************)
(* The App component: handleFiles.                                         *)
(***************************************************************************)
AppInit ==
    /\ daily = <<>>
    /\ summary = <<>>
    /\ error = <<>>
    /\ fileName = ""
    /\ pending = {}
    /\ started = 0
    /\ shown = <<>>

\* const file = files[0]; if (!file) return;
HandleFilesNoFile ==
    /\ started < MaxCalls
    /\ started' = started + 1
    /\ UNCHANGED <<daily, summary, error, fileName, pending, shown>>

\* setFileName(file.name); ... await file.text()
HandleFilesStart(f) ==
    /\ started < MaxCalls
    /\ started' = started + 1
    /\ fileName' = f.name
    /\ pending' = pending \cup {[id |-> started + 1, file |-> f.name]}
    /\ UNCHANGED <<daily, summary, error, shown>>

\* the body of try after the await: the thrown message, or the aggregate result
parseAndAggregate(f) ==
    IF Len(f.errors) # 0
    THEN Thrown(f.errors[1], <<>>, NoValue, NoSelections)
    ELSE aggregate(SelectSeq(f.data, LAMBDA row : DOMAIN row # {}), f.keys)

\* Caught without setDaily([]) and setSummary(null)
CaughtKeepingData(message) == [error |-> message, daily |-> daily, summary |-> summary]

\* catch (err) { setError(message); setDaily([]); setSummary(null); }
Caught(message) == [error |-> message, daily |-> <<>>, summary |-> <<>>]

\* setDaily(aggregated); setSummary(builtSummary); setError(null);
Displayed(result) == [error |-> <<>>, daily |-> result.daily, summary |-> result.summary]

\* what a completed call leaves in {error, daily, summary}
Completion(result) ==
    IF result.outcome = "throw" THEN Caught(result.message) ELSE Displayed(result)

\* the three setters of a completed call, applied together
Display(next) ==
    /\ error' = next.error
    /\ daily' = next.daily
    /\ summary' = next.summary

\* file.text() resolves: the rest of handleFiles runs to its end
TextResolved(c) ==
    /\ c \in pending
    /\ Display(Completion(parseAndAggregate(FileOf(c.file))))
    /\ pending' = pending \ {c}
    /\ shown' = Append(shown, c.file)
    /\ UNCHANGED <<fileName, started>>

\* file.text() rejects: the catch block runs with the rejection's message
TextRejected(c) ==
    /\ c \in pending
    /\ Display(Caught(<<"The requested file could not be read">>))
    /\ pending' = pending \ {c}
    /\ shown' = Append(shown, c.file)
    /\ UNCHANGED <<fileName, started>>

(***************************************************************************)
(* Specifications.                                                         *)
(***************************************************************************)
\* the App with files being dropped and read
AppStart == AppInit /\ keys = <<>> /\ rows = <<>> /\ aggPc = "done" /\ aggOut = AggIdle
                    /\ sigIn = SigIdle /\ sigPc = "done" /\ sigOut = <<>>
AppNext ==
    \/ HandleFilesNoFile /\ UNCHANGED <<aggVars, sigVars>>
    \/ (\E f \in Files : HandleFilesStart(f)) /\ UNCHANGED <<aggVars, sigVars>>
    \/ (\E c \in pending : TextResolved(c)) /\ UNCHANGED <<aggVars, sigVars>>
    \/ (\E c \in pending : TextRejected(c)) /\ UNCHANGED <<aggVars, sigVars>>
Spec == AppStart /\ [][AppNext]_vars

\* aggregate on every record set of the bounds
AggStart == AggInit /\ AppInit /\ sigIn = SigIdle /\ sigPc = "done" /\ sigOut = <<>>
AggNext == Aggregate /\ UNCHANGED <<appVars, sigVars>>
SpecAgg == AggStart /\ [][AggNext]_vars

\* buildSignals on every input of the bounds
SigStart == SigInit /\ AppInit /\ keys = <<>> /\ rows = <<>> /\ aggPc = "done"
                    /\ aggOut = AggIdle
SigNext == BuildSignals /\ UNCHANGED <<appVars, aggVars>>
SpecSignals == SigStart /\ [][SigNext]_vars

(***************************************************************************)
(* Properties.                                                             *)
(***************************************************************************)
AggDone == aggPc = "done"
AggReturned == AggDone /\ aggOut.outcome = "return"
\* detectMetricColumns ran: a date column was found
Detected == AggDone /\ aggOut.dateColumn # NoValue
RowIds == 1..Len(rows)
KeySet == {keys[i] : i \in 1..Len(keys)}
Position(h) == CHOOSE i \in 1..Len(keys) : keys[i] = h
DayOf(iso) == DateParse(iso)[1]
IsPositive(r) == r.n > 0
IsNegative(r) == r.n < 0

\* C1: the column selection computed inside aggregate never gives one column two
\* roles: no metric column is the date column, and no two metric keys share a column.
C1_ColumnRolesDistinct ==
    Detected =>
        /\ \A m \in MetricKeys :
              aggOut.metricColumns[m] # NoValue
                  => aggOut.metricColumns[m] # aggOut.dateColumn
        /\ \A m1, m2 \in MetricKeys :
              (m1 # m2 /\ aggOut.metricColumns[m1] # NoValue)
                  => aggOut.metricColumns[m1] # aggOut.metricColumns[m2]

\* C2: when a date column is detected and no other column holds a numeric-looking
\* cell, aggregate throws "Missing expected numeric columns" naming gross and net.
OnlyDateColumnNumeric ==
    \A h \in KeySet \ {aggOut.dateColumn} : \A i \in RowIds : ~numberish(rows[i][h])
C2_MissingNamesGrossAndNet ==
    (Detected /\ OnlyDateColumnNumeric) =>
        /\ aggOut.outcome = "throw"
        /\ aggOut.message = <<"Missing expected numeric columns: ", "gross", "net">>

\* C3: on success the daily aggregates are strictly ascending by calendar date, one
\* per distinct resolved date of the date column, operatingDays is their number,
\* calendarDays the inclusive span of the first and last date, and
\* calendarDays >= operatingDays >= 1.
ResolvedDates == {tryParseDate(rows[i][aggOut.dateColumn]) : i \in RowIds} \ {NoValue}
RECURSIVE SumWhere(_, _, _)
SumWhere(i, column, keep) ==
    IF i = 0 THEN Zero
    ELSE Add(SumWhere(i - 1, column, keep),
             IF column # NoValue /\ i \in keep THEN parseNumber(rows[i][column]) ELSE Zero)
RowsDated == {i \in RowIds : tryParseDate(rows[i][aggOut.dateColumn]) # NoValue}
RowsOn(iso) == {i \in RowIds : tryParseDate(rows[i][aggOut.dateColumn]) = iso}
C4_TotalsAreSums ==
    AggReturned =>
        \A m \in MetricKeys :
            LET column == aggOut.metricColumns[m]
                total == aggOut.summary[1].totals[m]
            IN /\ total = sumDaily(aggOut.daily, m)
               /\ total = SumWhere(Len(rows), column, RowsDated)
               /\ \A j \in 1..Len(aggOut.daily) :
                     aggOut.daily[j][m] =
                         SumWhere(Len(rows), column, RowsOn(aggOut.daily[j].dateISO))
               /\ (column = NoValue => total = Zero)
\* a record without a date carries an amount in a selected column and is left out,
\* while another metric has no column at all
C4_Witness ==
    /\ AggReturned
    /\ \E m \in MetricKeys : aggOut.metricColumns[m] = NoValue
    /\ \E m \in MetricKeys :
          /\ aggOut.metricColumns[m] # NoValue
          /\ aggOut.summary[1].totals[m] # Zero
          /\ \E i \in RowIds \ RowsDated :
                parseNumber(rows[i][aggOut.metricColumns[m]]) # Zero

\* C5: once a handleFiles call has completed, the display shows either a summary
\* with non-empty daily data and no error, or an error with no summary and no data.
SuccessShape == error = <<>> /\ summary # <<>> /\ daily # <<>>
FailureShape == error # <<>> /\ summary = <<>> /\ daily = <<>>
C5_TwoShapes == Len(shown) > 0 => (SuccessShape \/ FailureShape)
\* a failing file completes after a file whose summary was displayed
C5_Witness ==
    /\ Len(shown) = 2
    /\ shown[1] = "jan.csv"
    /\ shown[2] = "dates.csv"
    /\ pending = {}
    /\ FailureShape

\* C6 as claimed: for each metric key in order, the selected column has the maximum
\* score among all unclaimed columns with a numeric-looking cell.
SelectedFor(k) == aggOut.metricColumns[MetricOrder[k]]
Unclaimed(k) == KeySet \ {SelectedFor(j) : j \in 1..(k - 1)}
Eligible(k) == {h \in Unclaimed(k) : \E i \in RowIds : numberish(rows[i][h])}
Hints(k, h) == countHints(metricHints[MetricOrder[k]], toLowerCase(h))
Score(k, h) == 2 * Hints(k, h) + Cardinality({i \in RowIds : numberish(rows[i][h])})
C6_MaximumOfAllEligible ==
    Detected =>
        \A k \in 1..Len(MetricOrder) :
            IF Eligible(k) = {} THEN SelectedFor(k) = NoValue
            ELSE /\ SelectedFor(k) \in Eligible(k)
                 /\ \A h \in Eligible(k) : Score(k, SelectedFor(k)) >= Score(k, h)

\* C6 amended: the selected column is the highest-scoring, earliest on ties, among
\* the first unclaimed column with a numeric-looking cell and the later such columns
\* whose name holds at least one hint of the key.
Candidates(k) ==
    {h \in Eligible(k) :
        \/ \A g \in Eligible(k) : Position(h) <= Position(g)
        \/ Hints(k, h) > 0}
C6_MaximumOfCandidates ==
    Detected =>
        \A k \in 1..Len(MetricOrder) :
            IF Eligible(k) = {} THEN SelectedFor(k) = NoValue
            ELSE /\ SelectedFor(k) \in Candidates(k)
                 /\ \A h \in Candidates(k) :
                       \/ Score(k, SelectedFor(k)) > Score(k, h)
                       \/ /\ Score(k, SelectedFor(k)) = Score(k, h)
                          /\ Position(SelectedFor(k)) <= Position(h)
\* a later column without a hint outscores the selected one
C6_Witness ==
    /\ Detected
    /\ \E k \in 1..Len(MetricOrder) :
          /\ SelectedFor(k) # NoValue
          /\ \E h \in Eligible(k) : Score(k, h) > Score(k, SelectedFor(k))

\* C7: buildSignals returns the normalization note, the driver note if and only if
\* gross per day, net per transaction and transactions per day are all non-zero,
\* the discount note and the tips note, in this order: 3 or 4 messages.
SigDone == sigPc = "done"
DriverApplies ==
    /\ sigIn.perOperatingDay["gross"].n # 0
    /\ sigIn.ratios.netPerTransaction.n # 0
    /\ sigIn.perOperatingDay["transactions"].n # 0
CountRule(rule) == Cardinality({i \in 1..Len(sigOut) : sigOut[i].rule = rule})
C7_SignalOrder ==
    SigDone =>
        /\ Len(sigOut) = (IF DriverApplies THEN 4 ELSE 3)
        /\ sigOut[1].rule = "normalization"
        /\ sigOut[Len(sigOut) - 1].rule = "discount"
        /\ sigOut[Len(sigOut)].rule = "tips"
        /\ CountRule("normalization") = 1
        /\ CountRule("discount") = 1
        /\ CountRule("tips") = 1
        /\ CountRule("driver") = (IF DriverApplies THEN 1 ELSE 0)
        /\ (DriverApplies => sigOut[2].rule = "driver")
C7_Witness == SigDone /\ Len(sigOut) = 4 /\ sigOut[2].rule = "driver"

\* C8: with net per transaction and transactions per day both positive the driver
\* note is never the balanced one, and the balanced note comes only when both are
\* negative.
Balanced == "Ticket size and volume are balanced drivers of revenue."
Says(text) == \E i \in 1..Len(sigOut) : sigOut[i].text = text
C8_NoBalancedForPositives ==
    SigDone =>
        /\ (IsPositive(sigIn.ratios.netPerTransaction)
            /\ IsPositive(sigIn.perOperatingDay["transactions"])) => ~Says(Balanced)
        /\ Says(Balanced) =>
              /\ IsNegative(sigIn.ratios.netPerTransaction)
              /\ IsNegative(sigIn.perOperatingDay["transactions"])
\* equal positive ticket size and pace: the first comparison already holds
C8_Witness ==
    /\ SigDone
    /\ IsPositive(sigIn.ratios.netPerTransaction)
    /\ sigIn.perOperatingDay["transactions"] = sigIn.ratios.netPerTransaction
    /\ Says("Revenue is driven more by ticket size than transaction volume")

\* C9 as claimed: a detected date column has a record whose date resolves, "No
\* usable dated rows" is never thrown, and every input without a resolvable date
\* fails with "Could not find a date column".
NoResolvableDate == \A i \in RowIds : \A h \in KeySet : tryParseDate(rows[i][h]) = NoValue
NeverNoUsableDatedRows ==
    /\ Detected => RowsDated # {}
    /\ AggReturned => aggOut.daily # <<>>
    /\ AggDone => aggOut.message # <<"No usable dated rows found after parsing.">>
FailsWithNoDateColumn ==
    aggOut.outcome = "throw" /\ aggOut.message = <<"Could not find a date column.">>
C9_EveryUndatedInputFailsNoDateColumn ==
    /\ NeverNoUsableDatedRows
    /\ (AggDone /\ NoResolvableDate) => FailsWithNoDateColumn

\* C9 amended: as claimed, for every non-empty input (an empty one fails first with
\* "No rows detected in CSV.").
C9_NonEmptyUndatedInputFailsNoDateColumn ==
    /\ NeverNoUsableDatedRows
    /\ (AggDone /\ Len(rows) > 0 /\ NoResolvableDate) => FailsWithNoDateColumn
C9_Witness ==
    /\ AggDone
    /\ Len(rows) > 0
    /\ NoResolvableDate
    /\ \E i \in RowIds : \E h \in KeySet : numberish(rows[i][h])
    /\ FailsWithNoDateColumn

\* C10: once every handleFiles call has completed, fileName names the file whose
\* result (summary and daily data, or error) is displayed.
C10_FileNameMatchesDisplayed ==
    (pending = {} /\ Len(shown) > 0) => fileName = shown[Len(shown)]

====
